---- MODULE Spec2Model ----
(***************************************************************************)
(* A model of the og-image emitter plugin (quartz-community/og-image):     *)
(* the font resolver and its on-disk cache (fetchTtf, getSatoriFonts), the *)
(* emission driver (emit, partialEmit, processOgImage) and the meta-tag    *)
(* injector (externalResources / additionalHead).                          *)
(*                                                                         *)
(* Optional values (a TypeScript `T | undefined`) are sequences of length  *)
(* at most one: None is undefined, Some(v) is the value v.  Strings are    *)
(* TLA+ strings, on which Len, \o, SubSeq, Head and Tail work character by *)
(* character.                                                              *)
(***************************************************************************)
EXTENDS Integers, Sequences, FiniteSets, TLC

VARIABLES
    userOpts,   \* the options the plugin was constructed with (partial record)
    theme,      \* cfg.theme.typography: [header, body] font specifications
    phase,      \* position of the running emit/partialEmit invocation
    mode,       \* "emit" or "partialEmit"
    content,    \* the sequence the invocation iterates (pages or change events)
    idx,        \* index of the next element of content the loop visits
    tasks,      \* the fetchTtf calls of the current getSatoriFonts batch
    fonts,      \* the collection getSatoriFonts returned to this invocation
    cache,      \* quartz/.quartz-cache/fonts: cache key -> bytes, or Absent
    overwritten,\* history: keys whose entry a write has replaced
    rets,       \* history: the results fetchTtf has returned per cache key
    shared,     \* history: keys two overlapping fetchTtf calls have requested
    files,      \* output tree: slug -> whether <output>/<slug>-og-image.webp exists
    calls,      \* history: processOgImage calls of the current invocation
    failCause,  \* why the current invocation rejected: "none", "fonts", "raster"
    nbuilds,    \* number of invocations started so far
    head,       \* meta-tag injector harness: its input and its output
    descr       \* description harness: its input and its output

mainVars == <<userOpts, theme, phase, mode, content, idx, tasks, fonts, cache,
              overwritten, rets, shared, files, calls, failCause, nbuilds>>
vars == <<userOpts, theme, phase, mode, content, idx, tasks, fonts, cache,
          overwritten, rets, shared, files, calls, failCause, nbuilds, head, descr>>

----------------------------------------------------------------------------
(* Bounds of the model.                                                    *)

MaxBuilds == 2
MaxContent == 2

----------------------------------------------------------------------------
(* Optional values and the operators of the language.                      *)

None == <<>>
Some(v) == <<v>>

\* a ?? b
Coalesce(a, b) == IF a # None THEN a ELSE b

\* JavaScript truthiness of an optional string: undefined and "" are falsy.
Truthy(a) == a # None /\ a[1] # ""

StartsWith(s, p) == Len(s) >= Len(p) /\ SubSeq(s, 1, Len(p)) = p

RECURSIVE replaceAll(_, _, _)
\* String.prototype.replaceAll / replace with a global regex of a literal.
replaceAll(s, pat, rep) ==
    IF Len(s) = 0 THEN ""
    ELSE IF StartsWith(s, pat)
         THEN rep \o replaceAll(SubSeq(s, Len(pat) + 1, Len(s)), pat, rep)
         ELSE SubSeq(s, 1, 1) \o replaceAll(SubSeq(s, 2, Len(s)), pat, rep)

RECURSIVE trimStart(_)
trimStart(s) ==
    IF Len(s) > 0 /\ SubSeq(s, 1, 1) = " " THEN trimStart(SubSeq(s, 2, Len(s))) ELSE s

RECURSIVE trimEnd(_)
trimEnd(s) ==
    IF Len(s) > 0 /\ SubSeq(s, Len(s), Len(s)) = " "
    THEN trimEnd(SubSeq(s, 1, Len(s) - 1)) ELSE s

\* String.prototype.trim
trim(s) == trimEnd(trimStart(s))

\* unescapeHTML of @quartz-community/utils: five global replacements, in order.
unescapeHTML(html) ==
    replaceAll(replaceAll(replaceAll(replaceAll(replaceAll(html,
        "&amp;", "&"), "&lt;", "<"), "&gt;", ">"), "&quot;", "\""), "&#039;", "'")

----------------------------------------------------------------------------
(* The meta-tag injector.                                                  *)

isAbsoluteURL(url) == StartsWith(url, "http://") \/ StartsWith(url, "https://")

ExtStop == {".", "/", "?", "#"}

RECURSIVE ExtRun(_, _)
\* Length of the longest run of characters outside ExtStop that starts at i.
ExtRun(s, i) ==
    IF i <= Len(s) /\ SubSeq(s, i, i) \notin ExtStop THEN 1 + ExtRun(s, i + 1) ELSE 0

\* The regular expression matches at i: a dot, a non-empty run, then ?, # or the end.
ExtAt(s, i) ==
    /\ SubSeq(s, i, i) = "."
    /\ ExtRun(s, i + 1) >= 1
    /\ \/ i + ExtRun(s, i + 1) = Len(s)
       \/ SubSeq(s, i + ExtRun(s, i + 1) + 1, i + ExtRun(s, i + 1) + 1) \in {"?", "#"}

getFileExtension(path) ==
    LET hits == {i \in 1..Len(path) : ExtAt(path, i)}
    IN  IF hits = {} THEN None
        ELSE LET i == CHOOSE j \in hits : \A k \in hits : j <= k
             IN  Some(SubSeq(path, i + 1, i + ExtRun(path, i + 1)))

defaultOptionsWidth == "1200"
defaultOptionsHeight == "630"

\* The function externalResources puts in additionalHead, applied to a page.
additionalHead(baseUrl, pageData) ==
    LET isRealFile == pageData.filePath # None
        raw == pageData.frontmatter.socialImage
        userDefinedOgImagePath ==
            IF Truthy(raw)
            THEN IF isAbsoluteURL(raw[1]) THEN raw
                 ELSE Some("https://" \o baseUrl \o "/static/" \o raw[1])
            ELSE raw
        generatedOgImagePath ==
            IF isRealFile
            THEN Some("https://" \o baseUrl \o "/" \o pageData.slug \o "-og-image.webp")
            ELSE None
        defaultOgImagePath == Some("https://" \o baseUrl \o "/static/og-image.png")
        ogImagePath ==
            Coalesce(userDefinedOgImagePath,
                     Coalesce(generatedOgImagePath, defaultOgImagePath))[1]
    IN  [ widthHeight  |-> IF Truthy(userDefinedOgImagePath) THEN None
                           ELSE Some(<<defaultOptionsWidth, defaultOptionsHeight>>),
          ogImage      |-> ogImagePath,
          ogImageUrl   |-> ogImagePath,
          twitterImage |-> ogImagePath,
          ogImageType  |-> "image/" \o Coalesce(getFileExtension(ogImagePath), Some("png"))[1] ]

\* externalResources(ctx): nothing without a base URL, else additionalHead.
externalResources(baseUrl, pageData) ==
    IF ~Truthy(baseUrl) THEN None ELSE Some(additionalHead(baseUrl[1], pageData))

----------------------------------------------------------------------------
(* Options, page data and processOgImage's description.                    *)

defaultOptions ==
    [ excludeRoot        |-> Some(FALSE),
      defaultDescription |-> Some("No description provided") ]

OptionNames == {"excludeRoot", "defaultDescription"}

\* { ...defaultOptions, ...userOpts }: a key userOpts holds wins, also when its
\* value is undefined.
fullOptions(u) ==
    [k \in OptionNames |-> IF k \in DOMAIN u THEN u[k] ELSE defaultOptions[k]]

Frontmatter(img, sdesc, desc) ==
    [socialImage |-> img, socialDescription |-> sdesc, description |-> desc]

\* QuartzPluginData: slug, frontmatter, description (the excerpt), filePath.
PageData(slug, fm, excerpt, filePath) ==
    [slug |-> slug, frontmatter |-> fm, description |-> excerpt, filePath |-> filePath]

\* fileData.description?.trim()
trimOpt(a) == IF a = None THEN None ELSE Some(trim(a[1]))

\* The description processOgImage hands to generateSocialImage.
EffectiveDescription(fileData, opts) ==
    Coalesce(fileData.frontmatter.socialDescription,
        Coalesce(fileData.frontmatter.description,
            Some(unescapeHTML(
                Coalesce(trimOpt(fileData.description),
                    Coalesce(opts.defaultDescription, Some("")))[1]))))[1]

----------------------------------------------------------------------------
(* The font resolver.                                                      *)

defaultHeaderWeight == <<700>>
defaultBodyWeight == <<400>>

\* A FontSpecification: a bare family name, or a record with optional weights.
FontString(name) == [isString |-> TRUE, name |-> name, weights |-> None]
FontRecord(name, weights) == [isString |-> FALSE, name |-> name, weights |-> weights]

\* The site's themes the model draws from: header and body sharing family and
\* weight; distinct keys, one of a family name with a space.
Themes ==
    { [header |-> FontRecord("Inter", Some(<<400>>)), body |-> FontString("Inter")],
      [header |-> FontRecord("Open Sans", None), body |-> FontRecord("Inter", Some(<<400>>))] }

Weights(font, dflt) ==
    IF font.isString THEN dflt ELSE Coalesce(font.weights, Some(dflt))[1]

\* fetchTtf's cache key: spaces of the family become "+", then "-<weight>".
cacheKey(rawFontName, weight) ==
    replaceAll(rawFontName, " ", "+") \o "-" \o ToString(weight)

Absent == 0
FontBytes == {1, 2}

Keys ==
    UNION { { cacheKey(t.header.name, Weights(t.header, defaultHeaderWeight)[i]) :
                i \in 1..Len(Weights(t.header, defaultHeaderWeight)) }
            \cup
            { cacheKey(t.body.name, Weights(t.body, defaultBodyWeight)[i]) :
                i \in 1..Len(Weights(t.body, defaultBodyWeight)) } : t \in Themes }

\* One fetchTtf call as it starts: nothing fetched, about to test the cache.
NewTask(name, weight, seen) ==
    [ name |-> name, weight |-> weight, key |-> cacheKey(name, weight),
      pc |-> "access", css |-> "none", data |-> Absent, result |-> Absent,
      fetched |-> FALSE, warned |-> FALSE, prior |-> seen[cacheKey(name, weight)] ]

\* The calls getSatoriFonts starts: every header weight, then every body weight.
BatchTasks(t, seen) ==
    [i \in 1..Len(Weights(t.header, defaultHeaderWeight)) |->
        NewTask(t.header.name, Weights(t.header, defaultHeaderWeight)[i], seen)]
    \o
    [i \in 1..Len(Weights(t.body, defaultBodyWeight)) |->
        NewTask(t.body.name, Weights(t.body, defaultBodyWeight)[i], seen)]

\* Keys that two calls of one batch request.
BatchShared(ts) ==
    {ts[i].key : i \in {j \in 1..Len(ts) : \E k \in 1..Len(ts) : k # j /\ ts[k].key = ts[j].key}}

\* A faulty variant of CacheHit: the cache is never consulted.
CacheHitNever(c, key) == FALSE

\* try { await fs.access(cachePath) ... }: the entry exists.
CacheHit(c, key) == c[key] # Absent

InFlight(t) == t.pc \notin {"done", "rejected"}

\* A faulty variant of AllResolved: the loop starts when the first call has returned.
AnyResolved(ts) == \E i \in 1..Len(ts) : ts[i].pc = "done"

\* Promise.all over the batch has resolved.
AllResolved(ts) == \A i \in 1..Len(ts) : ts[i].pc = "done"

\* Promise.all over the batch has rejected.
SomeRejected(ts) == \E i \in 1..Len(ts) : ts[i].pc = "rejected"

\* The entry one call of the batch contributes; data is Absent for the null
\* the code maps an absent result to.
FontEntry(t) ==
    [name |-> t.name, data |-> t.result, weight |-> t.weight, style |-> "normal"]

\* A faulty variant of KeepFont: the nulls are not filtered out.
KeepFontAll(e) == TRUE

\* font !== null
KeepFont(e) == e.data # Absent

\* headerFonts.filter(non-null) followed by bodyFonts.filter(non-null).
CollectFonts(ts) == SelectSeq([i \in 1..Len(ts) |-> FontEntry(ts[i])], KeepFont)

----------------------------------------------------------------------------
(* The inputs of the emission driver.                                      *)

Slugs == {"index", "a"}

\* The slug of the site's root page.
RootSlug == "index"

MainImages == {None, Some(""), Some("cover.png")}

PageOf(slug, img) == PageData(slug, Frontmatter(img, None, None), None, Some(slug \o ".md"))

\* The change events the model draws from: every type, with and without a
\* file, with and without a custom image.
ChangeEvents ==
    { [type |-> "add",    file |-> Some(PageOf("a", None))],
      [type |-> "change", file |-> Some(PageOf("index", None))],
      [type |-> "delete", file |-> Some(PageOf("a", None))],
      [type |-> "change", file |-> None],
      [type |-> "add",    file |-> Some(PageOf("a", Some("")))],
      [type |-> "delete", file |-> Some(PageOf("index", Some("cover.png")))] }

MainPages == {PageOf(s, img) : s \in Slugs, img \in MainImages}

SeqsUpTo(S, n) == UNION {[1..k -> S] : k \in 0..n}

\* A full build's content holds each page once.
EmitContents ==
    { c \in SeqsUpTo(MainPages, MaxContent) :
        \A i, j \in 1..Len(c) : i # j => c[i].slug # c[j].slug }

PartialContents == SeqsUpTo(ChangeEvents, MaxContent)

Contents(m) == IF m = "emit" THEN EmitContents ELSE PartialContents

MainUserOpts == {<<>>, [excludeRoot |-> Some(TRUE)]}

----------------------------------------------------------------------------
(* The initial state: the plugin constructed, a cold font cache, an empty  *)
(* output tree.                                                            *)

MainInit ==
    /\ userOpts \in MainUserOpts
    /\ theme \in Themes
    /\ phase = "idle"
    /\ mode = "emit"
    /\ content = <<>>
    /\ idx = 1
    /\ tasks = <<>>
    /\ fonts = <<>>
    /\ cache = [k \in Keys |-> Absent]
    /\ overwritten = {}
    /\ rets = [k \in Keys |-> {}]
    /\ shared = {}
    /\ files = [s \in Slugs |-> FALSE]
    /\ calls = <<>>
    /\ failCause = "none"
    /\ nbuilds = 0

Init == MainInit /\ head = None /\ descr = None

----------------------------------------------------------------------------
(* fetchTtf, one action per await.                                         *)

SetTask(i, t) == tasks' = [tasks EXCEPT ![i] = t]

\* fetchTtf returns r for task i.
Returned(i, r) ==
    /\ SetTask(i, [tasks[i] EXCEPT !.pc = "done", !.result = r])
    /\ rets' = [rets EXCEPT ![tasks[i].key] = @ \cup {r}]

\* await fs.access(cachePath)
fetchTtfAccess(i) ==
    /\ tasks[i].pc = "access"
    /\ SetTask(i, [tasks[i] EXCEPT
           !.pc = IF CacheHit(cache, tasks[i].key) THEN "read" ELSE "css"])
    /\ UNCHANGED <<cache, overwritten, rets>>

\* return fs.readFile(cachePath)
fetchTtfRead(i) ==
    /\ tasks[i].pc = "read"
    /\ Returned(i, cache[tasks[i].key])
    /\ UNCHANGED <<cache, overwritten>>

\* The task after the stylesheet request: a body with an asset URL, a body
\* without one (a warning, absence), or a fetch that rejects (fetchTtf throws).
AfterCss(t, outcome) ==
    IF outcome = "url"
    THEN [t EXCEPT !.fetched = TRUE, !.css = outcome, !.pc = "font"]
    ELSE IF outcome = "nomatch"
    THEN [t EXCEPT !.fetched = TRUE, !.css = outcome, !.pc = "done",
                   !.warned = TRUE, !.result = Absent]
    ELSE [t EXCEPT !.fetched = TRUE, !.css = outcome, !.pc = "rejected"]

\* await fetch(css2?family=...); await cssResponse.text(); urlRegex.exec(css)
fetchTtfCss(i, outcome) ==
    /\ tasks[i].pc = "css"
    /\ SetTask(i, AfterCss(tasks[i], outcome))
    /\ rets' = IF AfterCss(tasks[i], outcome).pc = "done"
               THEN [rets EXCEPT ![tasks[i].key] = @ \cup {Absent}]
               ELSE rets
    /\ UNCHANGED <<cache, overwritten>>

\* await fetch(fontUrl); Buffer.from(await fontResponse.arrayBuffer())
fetchTtfFont(i) ==
    /\ tasks[i].pc = "font"
    /\ \/ \E d \in FontBytes : SetTask(i, [tasks[i] EXCEPT !.data = d, !.pc = "write"])
       \/ SetTask(i, [tasks[i] EXCEPT !.pc = "rejected"])
    /\ UNCHANGED <<cache, overwritten, rets>>

\* await fs.mkdir(cacheDir); await fs.writeFile(cachePath, fontData)
fetchTtfWrite(i) ==
    /\ tasks[i].pc = "write"
    /\ cache' = [cache EXCEPT ![tasks[i].key] = tasks[i].data]
    /\ overwritten' = IF cache[tasks[i].key] # Absent
                      THEN overwritten \cup {tasks[i].key} ELSE overwritten
    /\ SetTask(i, [tasks[i] EXCEPT !.pc = "ret"])
    /\ UNCHANGED rets

\* return fontData
fetchTtfReturn(i) ==
    /\ tasks[i].pc = "ret"
    /\ Returned(i, tasks[i].data)
    /\ UNCHANGED <<cache, overwritten>>

CssOutcomes == {"url", "nomatch", "reject"}

\* A step of one fetchTtf call; a call goes on after the batch has rejected.
fetchTtf ==
    /\ \E i \in 1..Len(tasks) :
          \/ fetchTtfAccess(i)
          \/ fetchTtfRead(i)
          \/ \E outcome \in CssOutcomes : fetchTtfCss(i, outcome)
          \/ fetchTtfFont(i)
          \/ fetchTtfWrite(i)
          \/ fetchTtfReturn(i)
    /\ UNCHANGED <<userOpts, theme, phase, mode, content, idx, fonts, shared,
                   files, calls, failCause, nbuilds, head, descr>>

----------------------------------------------------------------------------
(* emit and partialEmit.                                                   *)

\* The host calls the emitter: the generator starts and getSatoriFonts
\* starts every fetchTtf call of its batch.  The model starts an invocation
\* when the one before has ended and the calls a rejected batch left behind
\* have settled.
Invoke(m) ==
    /\ phase \in {"idle", "done", "failed"}
    /\ nbuilds < MaxBuilds
    /\ \A i \in 1..Len(tasks) : ~InFlight(tasks[i])
    /\ mode' = m
    /\ phase' = "fonts"
    /\ tasks' = BatchTasks(theme, rets)
    /\ shared' = shared \cup BatchShared(BatchTasks(theme, rets))
    /\ content' = <<>>
    /\ idx' = 1
    /\ fonts' = <<>>
    /\ calls' = <<>>
    /\ failCause' = "none"
    /\ nbuilds' = nbuilds + 1
    /\ UNCHANGED <<userOpts, theme, cache, overwritten, rets, files, head, descr>>

emit == Invoke("emit")

partialEmit == Invoke("partialEmit")

\* const fonts = await getSatoriFonts(...) resolves; the loop takes its
\* sequence c, which the invocation reads here for the first time.
getSatoriFontsResolved ==
    /\ phase = "fonts"
    /\ AllResolved(tasks)
    /\ \E c \in Contents(mode) : content' = c
    /\ fonts' = CollectFonts(tasks)
    /\ phase' = "pages"
    /\ idx' = 1
    /\ UNCHANGED <<userOpts, theme, mode, tasks, cache, overwritten, rets, shared,
                   files, calls, failCause, nbuilds, head, descr>>

\* await getSatoriFonts(...) rejects: the generator throws before its loop.
getSatoriFontsRejected ==
    /\ phase = "fonts"
    /\ SomeRejected(tasks)
    /\ phase' = "failed"
    /\ failCause' = "fonts"
    /\ UNCHANGED <<userOpts, theme, mode, content, idx, tasks, fonts, cache,
                   overwritten, rets, shared, files, calls, nbuilds, head, descr>>

\* A faulty variant of HasCustomImage: a truthiness test, which an empty string fails.
HasCustomImageTruthy(data) == Truthy(data.frontmatter.socialImage)

\* data.frontmatter?.socialImage !== undefined (a page without frontmatter is
\* a page whose socialImage is None)
HasCustomImage(data) == data.frontmatter.socialImage # None

\* A faulty variant of GeneratesOn: the event type is not looked at.
GeneratesOnAnyType(type) == TRUE

\* changeEvent.type === "add" || changeEvent.type === "change"
GeneratesOn(type) == type \in {"add", "change"}

\* The page the emit loop passes to processOgImage for element d, None on continue.
emitTarget(d) == IF HasCustomImage(d) THEN None ELSE Some(d)

\* The page the partialEmit loop passes to processOgImage for event ev.
partialEmitTarget(ev) ==
    IF ev.file = None THEN None
    ELSE IF HasCustomImage(ev.file[1]) THEN None
    ELSE IF GeneratesOn(ev.type) THEN ev.file
    ELSE None

Target(m, el) == IF m = "emit" THEN emitTarget(el) ELSE partialEmitTarget(el)

\* processOgImage's description for every page and option set the driver is
\* given, tabulated.
MainDescription ==
    [d \in MainPages |-> [u \in MainUserOpts |-> EffectiveDescription(d, fullOptions(u))]]

CallRecord(data, ok) ==
    [ slug |-> data.slug, data |-> data, at |-> idx,
      description |-> MainDescription[data][userOpts],
      fonts |-> fonts, ok |-> ok ]

\* yield processOgImage(ctx, data, fonts, fullOptions): the image is
\* rendered and written, or generateSocialImage rejects and, the yield being
\* awaited inside the generator, the generator throws.
processOgImage(data) ==
    \/ /\ calls' = Append(calls, CallRecord(data, TRUE))
       /\ files' = [files EXCEPT ![data.slug] = TRUE]
       /\ idx' = idx + 1
       /\ UNCHANGED <<phase, failCause>>
    \/ /\ calls' = Append(calls, CallRecord(data, FALSE))
       /\ phase' = "failed"
       /\ failCause' = "raster"
       /\ UNCHANGED <<files, idx>>

\* One iteration of the for loop of emit or partialEmit.
loopStep ==
    /\ phase = "pages"
    /\ idx <= Len(content)
    /\ IF Target(mode, content[idx]) = None
       THEN /\ idx' = idx + 1
            /\ UNCHANGED <<phase, failCause, calls, files>>
       ELSE processOgImage(Target(mode, content[idx])[1])
    /\ UNCHANGED <<userOpts, theme, mode, content, tasks, fonts, cache, overwritten,
                   rets, shared, nbuilds, head, descr>>

\* The loop is exhausted: the generator returns.
loopEnd ==
    /\ phase = "pages"
    /\ idx > Len(content)
    /\ phase' = "done"
    /\ UNCHANGED <<userOpts, theme, mode, content, idx, tasks, fonts, cache,
                   overwritten, rets, shared, files, calls, failCause, nbuilds, head, descr>>

Next ==
    \/ emit
    \/ partialEmit
    \/ fetchTtf
    \/ getSatoriFontsResolved
    \/ getSatoriFontsRejected
    \/ loopStep
    \/ loopEnd

Spec == Init /\ [][Next]_vars

----------------------------------------------------------------------------
(* The meta-tag injector on its own: externalResources applied to one page *)
(* under one site configuration.                                           *)

HeadBaseUrls == {None, Some(""), Some("example.com")}

HeadImages ==
    { None, Some(""), Some("cover.png"), Some("img/c.jpg?v=2"),
      Some("http://cdn.example/c.png"), Some("https://cdn.example/c.webp"),
      Some("HTTPS://cdn.example/c.png"), Some("//cdn.example/c.png") }

HeadPages ==
    { PageData(s, Frontmatter(img, None, None), None, fp) :
        s \in {"index", "notes/a"}, img \in HeadImages, fp \in {None, Some("notes/a.md")} }

HeadInit ==
    /\ MainInit
    /\ descr = None
    /\ head \in {[baseUrl |-> b, page |-> p, out |-> None] : b \in HeadBaseUrls, p \in HeadPages}

\* The host asks the plugin for the head elements of the page.
renderHead ==
    /\ head.out = None
    /\ head' = [head EXCEPT !.out = Some(externalResources(head.baseUrl, head.page))]
    /\ UNCHANGED <<mainVars, descr>>

HeadNext == renderHead

HeadSpec == HeadInit /\ [][HeadNext]_vars

----------------------------------------------------------------------------
(* processOgImage's description on its own: one page under one set of     *)
(* plugin options.                                                         *)

DescUserOpts ==
    { <<>>, [defaultDescription |-> Some("Plain default")],
      [defaultDescription |-> Some("Q&amp;A")], [defaultDescription |-> None] }

DescTexts == {None, Some(""), Some("Text")}

DescExcerpts == {None, Some(""), Some("  padded  "), Some("a &lt; b"), Some("&amp;lt;")}

DescPages ==
    { PageData("a", Frontmatter(None, sd, d), ex, Some("a.md")) :
        sd \in DescTexts, d \in DescTexts, ex \in DescExcerpts }

DescInit ==
    /\ MainInit
    /\ head = None
    /\ descr \in {[userOpts |-> u, page |-> p, out |-> None] : u \in DescUserOpts, p \in DescPages}

\* processOgImage computes the description it passes to the layout.
describePage ==
    /\ descr.out = None
    /\ descr' = [descr EXCEPT
           !.out = Some(EffectiveDescription(descr.page, fullOptions(descr.userOpts)))]
    /\ UNCHANGED <<mainVars, head>>

DescNext == describePage

DescSpec == DescInit /\ [][DescNext]_vars

----------------------------------------------------------------------------
(* Claims.                                                                 *)

\* The page an element of content carries: the page itself in emit, the
\* event's file in partialEmit; None for an event without a file.
ElementPage(m, el) == IF m = "emit" THEN Some(el) ELSE el.file

\* The call processOgImage appended in this step, None when it appended none.
NewCall == IF Len(calls') = Len(calls) + 1 THEN Some(calls'[Len(calls')]) ELSE None

\* C1: a page whose frontmatter declares socialImage (any value but undefined)
\* is never passed to processOgImage and no step writes its og-image file, in
\* emit and in partialEmit, whatever the event type, over every sequence of
\* builds: every call on record is for a page without socialImage, and a file
\* appears or is rewritten only through such a call for its own slug.
C1_CustomImageNeverGenerated ==
    [][ /\ \A i \in 1..Len(calls') : calls'[i].data.frontmatter.socialImage = None
        /\ \A s \in Slugs :
              files'[s] # files[s] =>
                  /\ NewCall # None
                  /\ NewCall[1].slug = s
                  /\ NewCall[1].data.frontmatter.socialImage = None
        /\ (phase = "pages" /\ idx <= Len(content)
              /\ ElementPage(mode, content[idx]) # None
              /\ ElementPage(mode, content[idx])[1].frontmatter.socialImage # None)
           => (calls' = calls /\ files' = files) ]_vars

\* C1 witness: a second build has finished whose content held a page with a
\* custom image and an og-image file from the build before; the page was
\* skipped while another page of the build was generated.
C1_Witness ==
    /\ nbuilds = 2
    /\ phase = "done"
    /\ Len(calls) >= 1
    /\ \E i \in 1..Len(content) :
          /\ ElementPage(mode, content[i]) # None
          /\ ElementPage(mode, content[i])[1].frontmatter.socialImage # None
          /\ files[ElementPage(mode, content[i])[1].slug]
          /\ \A k \in 1..Len(calls) :
                calls[k].slug # ElementPage(mode, content[i])[1].slug

\* C2 as stated: a fetchTtf call that started after a call for the same key
\* had returned (data or absence) performs no network fetch and returns what
\* that call returned.
C2_SecondCallServedFromCache ==
    \A i \in 1..Len(tasks) :
        \A r \in tasks[i].prior :
            /\ ~tasks[i].fetched
            /\ tasks[i].pc = "done" => tasks[i].result = r

\* C2 amended: a fetchTtf call that started after a call for the same key had
\* returned font data performs no network fetch, does not reject, and returns
\* the same bytes unless overlapping calls for that key have overwritten the
\* entry.
C2_SecondCallAfterDataServedFromCache ==
    \A i \in 1..Len(tasks) :
        \A r \in tasks[i].prior :
            r # Absent =>
                /\ ~tasks[i].fetched
                /\ tasks[i].pc # "rejected"
                /\ (tasks[i].pc = "done" /\ tasks[i].key \notin overwritten)
                      => tasks[i].result = r

\* C2 witness: a call has returned that started after an earlier call for
\* its key had returned font data; it fetched nothing and returned bytes.
C2_Witness ==
    \E i \in 1..Len(tasks) :
        /\ tasks[i].pc = "done"
        /\ tasks[i].prior \cap FontBytes # {}
        /\ ~tasks[i].fetched
        /\ tasks[i].result \in tasks[i].prior

\* The og:image URL the priority of C3 gives a page.
ResolvedUserImage(baseUrl, img) ==
    IF StartsWith(img, "http://") \/ StartsWith(img, "https://") THEN img
    ELSE "https://" \o baseUrl \o "/static/" \o img

FallbackImage(baseUrl, page) ==
    IF page.filePath # None THEN "https://" \o baseUrl \o "/" \o page.slug \o "-og-image.webp"
    ELSE "https://" \o baseUrl \o "/static/og-image.png"

\* C3: with a base URL configured, og:image is the resolved user-supplied
\* socialImage when the page supplies one, else the generated path when the
\* page has a filePath, else the site default.  An empty socialImage may count
\* as supplied (resolved) or as not supplied (the fallbacks).
C3_OgImagePriority ==
    (head # None /\ head.out # None /\ Truthy(head.baseUrl)) =>
        LET b == head.baseUrl[1]
            page == head.page
            img == page.frontmatter.socialImage
            og == head.out[1][1].ogImage
        IN  /\ head.out[1] # None
            /\ img = None => og = FallbackImage(b, page)
            /\ (img # None /\ img[1] # "") => og = ResolvedUserImage(b, img[1])
            /\ img = Some("") => og \in {ResolvedUserImage(b, ""), FallbackImage(b, page)}

\* The description the priority of C4 gives a page.
ClaimedDescription(page, opts) ==
    IF page.frontmatter.socialDescription # None THEN page.frontmatter.socialDescription[1]
    ELSE IF page.frontmatter.description # None THEN page.frontmatter.description[1]
    ELSE IF page.description # None THEN unescapeHTML(trim(page.description[1]))
    ELSE opts.defaultDescription[1]

\* C4: the description passed to the layout is socialDescription if present,
\* else frontmatter description, else the trimmed, unescaped excerpt, else the
\* configured defaultDescription, which is the result whenever the page
\* supplies none of the three (for every configured default that is a string).
C4_DescriptionPriority ==
    (descr # None /\ descr.out # None
        /\ fullOptions(descr.userOpts).defaultDescription # None) =>
        descr.out[1] = ClaimedDescription(descr.page, fullOptions(descr.userOpts))

ClaimEligible(m, el) ==
    IF m = "emit" THEN el.frontmatter.socialImage = None
    ELSE /\ el.file # None
         /\ el.file[1].frontmatter.socialImage = None
         /\ el.type \in {"add", "change"}

\* C6: a processOgImage rejection aborts that page only: when the invocation
\* has ended after a rejection, every eligible element after the rejected one
\* has been processed and its file written.
C6_FailureAbortsOnlyThatPage ==
    (phase \in {"done", "failed"} /\ failCause # "fonts") =>
        \A j \in 1..Len(content) :
            (ClaimEligible(mode, content[j])
                /\ \E k \in 1..Len(calls) : calls[k].at < j /\ ~calls[k].ok)
            => /\ \E k \in 1..Len(calls) : calls[k].at = j /\ calls[k].ok
               /\ files[ElementPage(mode, content[j])[1].slug]

\* C7: constructed with excludeRoot true, the plugin never generates an image
\* for the root page.
C7_RootExcludedWhenAsked ==
    fullOptions(userOpts).excludeRoot = Some(TRUE) =>
        /\ \A k \in 1..Len(calls) : calls[k].slug # RootSlug
        /\ ~files[RootSlug]

\* C8 as stated: a cache entry is written at most once and, once it exists,
\* is never overwritten, under every interleaving of fetchTtf calls.
C8_CacheEntryWrittenOnce == overwritten = {}

\* C8 amended: a cache entry is never removed, and it is written again only
\* for a key that overlapping fetchTtf calls of one batch requested (header
\* and body sharing family and weight); every other key is written at most
\* once, by the first call that missed it.
C8_CacheOverwrittenOnlyByOverlap ==
    [][ \A k \in Keys :
          /\ cache[k] # Absent => cache'[k] # Absent
          /\ (cache[k] # Absent /\ cache'[k] # cache[k]) => k \in shared'
          /\ k \in overwritten' => k \in shared' ]_vars

\* C8 witness: a second invocation has finished with an entry, for a key no
\* two calls shared, that its call found in the cache and did not write.
C8_Witness ==
    /\ nbuilds = 2
    /\ phase = "done"
    /\ \E i \in 1..Len(tasks) :
          /\ tasks[i].key \notin shared
          /\ tasks[i].prior \cap FontBytes # {}
          /\ ~tasks[i].fetched
          /\ cache[tasks[i].key] = tasks[i].result

\* C9: the loop of an invocation starts only when every fetchTtf call of its
\* batch has returned; while it runs no call is started or changed and the
\* collection stays the same; every processOgImage call of the invocation
\* received that collection.
C9_FontsResolvedOnceBeforePages ==
    [][ /\ (phase' = "pages" \/ calls' # <<>>) =>
              \A i \in 1..Len(tasks') : tasks'[i].pc = "done"
        /\ (phase = "pages" /\ nbuilds' = nbuilds) => (tasks' = tasks /\ fonts' = fonts)
        /\ \A k \in 1..Len(calls') : calls'[k].fonts = fonts' ]_vars

\* C9 witness: two pages of one invocation have been processed, both with
\* the collection the batch resolved, which holds a font.
C9_Witness ==
    /\ phase = "pages"
    /\ Len(calls) = 2
    /\ calls[1].fonts = fonts
    /\ calls[2].fonts = fonts
    /\ Len(fonts) >= 1

\* C10: each iteration of the partialEmit loop calls processOgImage, for the
\* event's file, exactly when the event is an add or a change that carries a
\* file without a custom image, and then writes that file's image alone; on
\* every other event (a delete, an event without a file) it calls nothing
\* and leaves every file as it was.
C10_PartialEmitGeneratesOnAddOrChange ==
    [][ (mode = "partialEmit" /\ phase = "pages" /\ idx <= Len(content)
            /\ (idx' # idx \/ phase' # phase)) =>
          LET ev == content[idx]
              gen == /\ ev.type \in {"add", "change"}
                     /\ ev.file # None
                     /\ ev.file[1].frontmatter.socialImage = None
          IN  /\ gen => /\ NewCall # None
                        /\ NewCall[1].data = ev.file[1]
                        /\ \A s \in Slugs :
                              files'[s] = (files[s] \/ (NewCall[1].ok /\ s = ev.file[1].slug))
              /\ ~gen => (calls' = calls /\ files' = files) ]_vars

\* C10 witness: a second, incremental invocation has finished that held a
\* delete event for a page whose image an earlier build had generated; the
\* image is still there, and another event of the batch was generated.
C10_Witness ==
    /\ nbuilds = 2
    /\ mode = "partialEmit"
    /\ phase = "done"
    /\ Len(calls) >= 1
    /\ \E i \in 1..Len(content) :
          /\ content[i].type = "delete"
          /\ content[i].file # None
          /\ files[content[i].file[1].slug]
          /\ \A k \in 1..Len(calls) : calls[k].at # i

\* C11: with a base URL configured, og:image, og:image:url and
\* twitter:image of a page are one and the same non-empty absolute URL, which
\* is the resolved user image, the generated path or the site default, for
\* every socialImage, the empty string included; and a page the emitter skips
\* because its socialImage is defined gets the resolved user-supplied URL.
C11_OgImageTagsAgreeAndAbsolute ==
    (head # None /\ head.out # None /\ Truthy(head.baseUrl)) =>
        LET b == head.baseUrl[1]
            page == head.page
            img == page.frontmatter.socialImage
            tags == head.out[1][1]
            generated == "https://" \o b \o "/" \o page.slug \o "-og-image.webp"
            default == "https://" \o b \o "/static/og-image.png"
            candidates == {generated, default}
                            \cup (IF img = None THEN {} ELSE {ResolvedUserImage(b, img[1])})
        IN  /\ head.out[1] # None
            /\ tags.ogImageUrl = tags.ogImage
            /\ tags.twitterImage = tags.ogImage
            /\ tags.ogImage # ""
            /\ StartsWith(tags.ogImage, "http://") \/ StartsWith(tags.ogImage, "https://")
            /\ tags.ogImage \in candidates
            /\ img # None => tags.ogImage = ResolvedUserImage(b, img[1])

====
